---- MODULE Spec2Model ----
(***************************************************************************)
(* The wisdom_backend search service: the boolean query evaluator, the     *)
(* table aggregator (search_tables), the row search (search_rows), the     *)
(* facet builder and the pagination helper, as operators translated from   *)
(* app/services/*.py, driven by request actions over a loaded dataset.     *)
(*                                                                         *)
(* Representation of Python values:                                        *)
(*   - a str that is lower-cased or substring-tested is a sequence of      *)
(*     one-character strings (<<"M","e","x">> is "Mex");                   *)
(*   - a str that is only compared for equality (database key, category,   *)
(*     country, column type-tag) is a TLA+ string;                         *)
(*   - an Optional value is a sequence of length <= 1: Null is None,       *)
(*     Some(x) is x;                                                       *)
(*   - a dict is a function whose DOMAIN is the set of keys present.       *)
(***************************************************************************)
EXTENDS Integers, Sequences, FiniteSets, TLC

VARIABLES
    dataset,    \* the loaded metadata.json and records/*.json (read-only)
    op,         \* "idle", or the name of the operation that has run
    args,       \* the arguments the operation ran with
    out         \* what the operation returned or raised

vars == <<dataset, op, args, out>>

(***************************************************************************)
(* Optional values and strings                                             *)
(***************************************************************************)
Null == <<>>
Some(x) == <<x>>
Val(o) == o[1]

Max(a, b) == IF a >= b THEN a ELSE b
Min(a, b) == IF a <= b THEN a ELSE b

\* str.lower(), on the characters the model's strings use
LowerChar(c) ==
    CASE c = "M" -> "m"
      [] c = "E" -> "e"
      [] c = "X" -> "x"
      [] c = "N" -> "n"
      [] c = "S" -> "s"
      [] OTHER -> c

Lower(s) == [i \in 1..Len(s) |-> LowerChar(s[i])]

\* Python's `needle in hay` on str
Contains(needle, hay) ==
    \E i \in 0..(Len(hay) - Len(needle)) :
        SubSeq(hay, i + 1, i + Len(needle)) = needle

\* str(None)
sNone == <<"N", "o", "n", "e">>

\* str(field_val) of a record's field: a stored string is itself, None is "None"
StrOfField(v) == IF v = Null THEN sNone ELSE Val(v)

\* dict.get(key, default)
Get(d, key, default) == IF key \in DOMAIN d THEN d[key] ELSE default

\* a list as the set of its items
Items(s) == {s[i] : i \in 1..Len(s)}

(***************************************************************************)
(* Query evaluator: search_service.py                                      *)
(***************************************************************************)
\* lines 79-83: the term, the variants the permutation map lists for it,
\* de-duplicated and lower-cased
LowerVariantsWithoutMap(term, permutations) == {Lower(term)}

LowerVariants(term, permutations) ==
    LET mapped == IF permutations # Null /\ DOMAIN Val(permutations) # {}
                     /\ term \in DOMAIN Val(permutations)
                  THEN Items(Val(permutations)[term])
                  ELSE {}
    IN  {Lower(v) : v \in {term} \cup mapped}

\* lines 85-90: no bdt, any variant in any non-null field value
MatchAnyField(lower_variants, record) ==
    \E f \in DOMAIN record :
        /\ record[f] # Null
        /\ \E lv \in lower_variants : Contains(lv, Lower(StrOfField(record[f])))

\* line 96: the names of the columns whose declared type-tag is bdt
MatchingCols(meta, bdt) ==
    {meta.columns[i].name : i \in {j \in 1..Len(meta.columns) : meta.columns[j].type = bdt}}

\* lines 92-101: with a bdt, only the columns of that type of the owning table
MatchTypedCols(lower_variants, record, table_meta, bdt) ==
    LET table_key == Get(record, "tableKey", Null)
    IN  IF table_key = Null \/ Val(table_key) \notin DOMAIN table_meta
        THEN FALSE
        ELSE LET matching_cols == MatchingCols(table_meta[Val(table_key)], bdt)
             IN  /\ matching_cols # {}
                 /\ \E col \in matching_cols : \E lv \in lower_variants :
                        Contains(lv, Lower(StrOfField(Get(record, col, Some(<<>>)))))

\* lines 65-101
_evaluate_clause(element, record, table_meta, permutations) ==
    IF element.value = Null
    THEN FALSE
    ELSE LET lower_variants == LowerVariants(Val(element.value), permutations)
         IN  IF element.bdt = Null
             THEN MatchAnyField(lower_variants, record)
             ELSE MatchTypedCols(lower_variants, record, table_meta, Val(element.bdt))

\* lines 127-132: combine the running result with res under the pending operator
CombineAndOnly(result, pending_op, res) ==
    IF pending_op = Null THEN result ELSE Some(Val(result) /\ res)

Combine(result, pending_op, res) ==
    IF pending_op = Null THEN result
    ELSE IF Val(pending_op) = "AND" THEN Some(Val(result) /\ res)
    ELSE IF Val(pending_op) = "OR" THEN Some(Val(result) \/ res)
    ELSE result

\* lines 125-132: the loop's two locals after a clause or sub-query gave res
Step(result, pending_op, res) ==
    IF result = Null THEN [result |-> Some(res), pending_op |-> pending_op]
    ELSE IF pending_op # Null
    THEN [result |-> Combine(result, pending_op, res), pending_op |-> Null]
    ELSE [result |-> result, pending_op |-> pending_op]

RECURSIVE _evaluate_query_elements(_, _, _, _)
RECURSIVE EvalLoop(_, _, _, _, _, _)

\* lines 114-132: the for loop, from element i on; st holds result and pending_op
EvalLoop(elements, i, st, record, table_meta, permutations) ==
    IF i > Len(elements)
    THEN st.result
    ELSE IF elements[i].type = "operator"
    THEN EvalLoop(elements, i + 1,
                  [result |-> st.result, pending_op |-> elements[i].operator],
                  record, table_meta, permutations)
    ELSE EvalLoop(elements, i + 1,
                  Step(st.result, st.pending_op,
                       IF elements[i].type = "subQuery"
                       THEN _evaluate_query_elements(elements[i].elements, record,
                                                     table_meta, permutations)
                       ELSE _evaluate_clause(elements[i], record, table_meta, permutations)),
                  record, table_meta, permutations)

\* line 133
ResultOrTrue(result) == IF result # Null THEN Val(result) ELSE TRUE

\* lines 104-133
_evaluate_query_elements(elements, record, table_meta, permutations) ==
    IF elements = <<>>
    THEN TRUE
    ELSE ResultOrTrue(EvalLoop(elements, 1, [result |-> Null, pending_op |-> Null],
                               record, table_meta, permutations))

\* a top-level query: None, a plain string or a list of elements
StrQuery(s) == Some([kind |-> "str", s |-> s, elements |-> <<>>])
ListQuery(elements) == Some([kind |-> "list", s |-> <<>>, elements |-> elements])

\* Python truthiness of a query: None, "" and [] are falsy
QueryPresent(query) ==
    /\ query # Null
    /\ IF Val(query).kind = "str" THEN Val(query).s # <<>> ELSE Val(query).elements # <<>>

\* lines 136-149
_apply_query_to_records(records, query, table_meta, permutations) ==
    IF ~QueryPresent(query) THEN records
    ELSE IF Val(query).kind = "str"
    THEN LET term == Lower(Val(query).s)
             Hit(r) == \E f \in DOMAIN r :
                          r[f] # Null /\ Contains(term, Lower(StrOfField(r[f])))
         IN  SelectSeq(records, Hit)
    ELSE LET Hit(r) == _evaluate_query_elements(Val(query).elements, r, table_meta, permutations)
         IN  SelectSeq(records, Hit)

(***************************************************************************)
(* Year values: an int or a str in the stored metadata and in the filters  *)
(***************************************************************************)
IntYear(n) == [kind |-> "int", n |-> n, s |-> <<>>]
StrYear(s) == [kind |-> "str", n |-> 0, s |-> s]

Digits == <<"0", "1", "2", "3", "4", "5", "6", "7", "8", "9">>
IsDigit(c) == \E d \in 1..10 : Digits[d] = c
DigitVal(c) == (CHOOSE d \in 1..10 : Digits[d] = c) - 1

RECURSIVE ParseDigits(_)
ParseDigits(s) ==
    IF Len(s) = 1 THEN DigitVal(s[1])
    ELSE 10 * ParseDigits(SubSeq(s, 1, Len(s) - 1)) + DigitVal(s[Len(s)])

RECURSIVE IntToStr(_)
\* str(n), n >= 0
IntToStr(n) ==
    IF n < 10 THEN <<Digits[n + 1]>>
    ELSE IntToStr(n \div 10) \o <<Digits[(n % 10) + 1]>>

\* int(y) under try/except: Null when it raises (None, or a str that is not
\* a decimal numeral)
ToInt(y) ==
    IF y = Null THEN Null
    ELSE IF Val(y).kind = "int" THEN Some(Val(y).n)
    ELSE IF Val(y).s # <<>> /\ \A i \in 1..Len(Val(y).s) : IsDigit(Val(y).s[i])
    THEN Some(ParseDigits(Val(y).s))
    ELSE Null

\* str(y)
StrOfYear(y) ==
    IF y = Null THEN sNone
    ELSE IF Val(y).kind = "int" THEN IntToStr(Val(y).n)
    ELSE Val(y).s

sAll == <<"a", "l", "l">>

(***************************************************************************)
(* Table aggregator: search_service.py                                     *)
(***************************************************************************)
\* lines 26-51: the projection of one table, None (Null) without metadata
_table_meta_from_key(table_key, table_meta, count_override, db_key, db_config) ==
    IF table_key \notin DOMAIN table_meta
    THEN Null
    ELSE LET meta == table_meta[table_key]
             db_name == IF db_key # Null /\ Val(db_key) \in DOMAIN db_config
                        THEN db_config[Val(db_key)].name
                        ELSE Null
         IN  Some([id |-> table_key,
                   name |-> meta.name,
                   year |-> meta.year,
                   country |-> meta.country,
                   categories |-> meta.categories,
                   count |-> IF count_override # Null THEN Val(count_override)
                             ELSE meta.recordCount,
                   columns |-> [i \in 1..Len(meta.columns) |-> meta.columns[i].name],
                   dbId |-> IF db_key # Null /\ Val(db_key) # "" THEN db_key ELSE Null,
                   dbName |-> IF db_key # Null /\ Val(db_key) # "" /\ db_name # Null
                                 /\ Val(db_name) # <<>>
                              THEN db_name ELSE Null])

RECURSIVE DedupeLoop(_, _, _)
DedupeLoop(items, seen, ordered) ==
    IF items = <<>> THEN ordered
    ELSE IF Head(items) \in seen THEN DedupeLoop(Tail(items), seen, ordered)
    ELSE DedupeLoop(Tail(items), seen \cup {Head(items)}, Append(ordered, Head(items)))

\* lines 54-62
_dedupe_preserve_order(items) == DedupeLoop(items, {}, <<>>)

\* line 163: int(t.get("year")) != int(f.year), "raise" when either int() raises
YearDiffers(table_year, filter_year) ==
    IF ToInt(table_year) = Null \/ ToInt(filter_year) = Null THEN "raise"
    ELSE IF Val(ToInt(table_year)) # Val(ToInt(filter_year)) THEN "differs"
    ELSE "same"

Truthy(o) == o # Null /\ Val(o) # <<>>

\* lines 156-179: the body of the loop for one table: "keep" (appended),
\* "skip" (continue) or "raise" (an exception leaves the function)
FilterOne(t, f) ==
    IF Truthy(f.selectedTables) /\ t.id \notin Items(Val(f.selectedTables)) THEN "skip"
    ELSE IF Truthy(f.tableName) /\ t.name = Null THEN "raise"
    ELSE IF Truthy(f.tableName) /\ ~Contains(Lower(Val(f.tableName)), Lower(Val(t.name)))
    THEN "skip"
    ELSE IF f.year # Null /\ f.year # Some(StrYear(sAll))
            /\ YearDiffers(t.year, f.year) # "same"
    THEN "skip"
    ELSE IF f.category # Null /\ Val(f.category) # "all"
            /\ Val(f.category) \notin Items(t.categories)
    THEN "skip"
    ELSE IF f.country # Null /\ Val(f.country) # "all" /\ t.country # f.country THEN "skip"
    ELSE IF Truthy(f.categories)
            /\ ~\E cat \in Items(Val(f.categories)) : cat \in Items(t.categories)
    THEN "skip"
    ELSE IF Truthy(f.regions)
            /\ (t.country = Null \/ Val(t.country) = ""
                \/ Val(t.country) \notin Items(Val(f.regions)))
    THEN "skip"
    ELSE IF Truthy(f.tableNames)
            /\ (t.name = Null \/ Val(t.name) \notin Items(Val(f.tableNames)))
    THEN "skip"
    ELSE IF Truthy(f.tableYears)
            /\ StrOfYear(t.year) \notin {StrOfYear(Some(y)) : y \in Items(Val(f.tableYears))}
    THEN "skip"
    ELSE "keep"

RECURSIVE FilterLoop(_, _, _)
FilterLoop(tables, f, acc) ==
    IF tables = <<>> THEN [raised |-> FALSE, tables |-> acc]
    ELSE LET verdict == FilterOne(Head(tables), f)
         IN  IF verdict = "raise" THEN [raised |-> TRUE, tables |-> <<>>]
             ELSE FilterLoop(Tail(tables), f,
                             IF verdict = "keep" THEN Append(acc, Head(tables)) ELSE acc)

\* lines 152-180
_filter_tables_by_filters(tables, filters) == FilterLoop(tables, filters, <<>>)

\* lines 186 and 322: the (db, table) pairs of the entries that have a table
AllowedPairs(picked_tables) ==
    {<<item.db, Val(item.table)>> : item \in {i \in Items(picked_tables) : i.table # Null}}

\* lines 183-195
PickedIgnoringWildcard(tables, picked_tables) ==
    IF picked_tables = Null \/ Val(picked_tables) = <<>> THEN tables
    ELSE LET allowed_pairs == AllowedPairs(Val(picked_tables))
             Allowed(t) == <<t.dbId, t.id>> \in allowed_pairs
         IN  SelectSeq(tables, Allowed)

_apply_picked_tables_constraint(tables, picked_tables) ==
    IF picked_tables = Null \/ Val(picked_tables) = <<>> THEN tables
    ELSE LET allowed_pairs == AllowedPairs(Val(picked_tables))
             Allowed(t) == \/ <<t.dbId, t.id>> \in allowed_pairs
                           \/ <<Null, t.id>> \in allowed_pairs
         IN  IF allowed_pairs = {} THEN <<>> ELSE SelectSeq(tables, Allowed)

\* data_loader.py lines 28-34: the records of one database, Null when the
\* database has no records file (HTTP 404)
load_records(records_dir, db_key) ==
    IF db_key \in DOMAIN records_dir THEN Some(records_dir[db_key]) ELSE Null

HasTableKey(r) == Get(r, "tableKey", Null) # Null

\* lines 211 and 219: the table ids of the matching records under a query,
\* else the assigned ids
TableIds(table_keys_for_db, has_query, filtered_records) ==
    IF has_query
    THEN {Val(r["tableKey"]) : r \in {x \in Items(filtered_records) : HasTableKey(x)}}
    ELSE Items(table_keys_for_db)

\* the declared recordCount whether or not there is a query
TableCountsDeclared(table_ids, table_meta, has_query, filtered_records) ==
    [tid \in table_ids |->
        IF tid \in DOMAIN table_meta THEN table_meta[tid].recordCount ELSE 0]

\* lines 212-216 and 220: the match count per table key under a query, else
\* the declared recordCount (0 without metadata)
TableCounts(table_ids, table_meta, has_query, filtered_records) ==
    IF has_query
    THEN [tid \in table_ids |->
            LET IsOf(r) == HasTableKey(r) /\ Val(r["tableKey"]) = tid
            IN  Len(SelectSeq(filtered_records, IsOf))]
    ELSE [tid \in table_ids |->
            IF tid \in DOMAIN table_meta THEN table_meta[tid].recordCount ELSE 0]

\* lines 217 and 221
OrderedReversed(table_keys_for_db, table_ids, has_query) ==
    LET InIds(tid) == tid \in table_ids
        kept == SelectSeq(table_keys_for_db, InIds)
    IN  [i \in 1..Len(kept) |-> kept[Len(kept) + 1 - i]]

OrderedTableIds(table_keys_for_db, table_ids, has_query) ==
    LET InIds(tid) == tid \in table_ids
    IN  IF has_query THEN SelectSeq(table_keys_for_db, InIds) ELSE table_keys_for_db

\* the items of a list of Optionals that are not None
Present(s) ==
    LET NotNone(t) == t # Null
    IN  [i \in 1..Len(SelectSeq(s, NotNone)) |-> Val(SelectSeq(s, NotNone)[i])]

\* lines 223-226
ProjectTables(db_key, table_meta, db_config, ordered_table_ids, table_counts) ==
    [tables |-> Present([i \in 1..Len(ordered_table_ids) |->
                            _table_meta_from_key(ordered_table_ids[i], table_meta,
                                                 Some(table_counts[ordered_table_ids[i]]),
                                                 Some(db_key), db_config)]),
     table_counts |-> table_counts]

\* lines 210-226, on the table ids
TablesOfIds(db_key, table_keys_for_db, table_meta, db_config, has_query, filtered_records, table_ids) ==
    ProjectTables(db_key, table_meta, db_config,
                  OrderedTableIds(table_keys_for_db, table_ids, has_query),
                  TableCounts(table_ids, table_meta, has_query, filtered_records))

\* lines 210-226, on the filtered records
TablesOfRecords(db_key, table_keys_for_db, table_meta, db_config, has_query, filtered_records) ==
    TablesOfIds(db_key, table_keys_for_db, table_meta, db_config, has_query,
                filtered_records,
                TableIds(table_keys_for_db, has_query, filtered_records))

\* lines 198-226, given the records load_records returned for db_key
_tables_for_db(db_key, assignments, table_meta, db_config, query, permutations, records) ==
    TablesOfRecords(db_key, Get(assignments, db_key, <<>>), table_meta, db_config,
                    QueryPresent(query),
                    _apply_query_to_records(records, query, table_meta, permutations))

\* dict[k] = dict.get(k, 0) + w
AddTo(d, k, w) == [x \in DOMAIN d \cup {k} |-> IF x = k THEN Get(d, k, 0) + w ELSE d[x]]

RECURSIVE AddAll(_, _, _)
\* lines 239-240: for cat in categories
AddAll(d, keys, w) ==
    IF keys = <<>> THEN d ELSE AddAll(AddTo(d, Head(keys), w), Tail(keys), w)

\* lines 235-238: the weight of a table, 1 when the map has 0 or nothing
WeightNoFallback(table_counts, id) == Get(table_counts, id, 0)

Weight(table_counts, id) ==
    LET weight == Get(table_counts, id, 0)
    IN  IF weight = 0 THEN 1 ELSE weight

RECURSIVE FacetLoop(_, _, _)
\* lines 234-250
FacetLoop(tables, table_counts, acc) ==
    IF tables = <<>> THEN acc
    ELSE LET t == Head(tables)
             weight == Weight(table_counts, t.id)
         IN  FacetLoop(Tail(tables), table_counts,
                [categories |-> AddAll(acc.categories, t.categories, weight),
                 regions |-> IF t.country # Null /\ Val(t.country) # ""
                             THEN AddTo(acc.regions, Val(t.country), weight)
                             ELSE acc.regions,
                 tableNames |-> IF t.name # Null /\ Val(t.name) # <<>>
                                THEN AddTo(acc.tableNames, Val(t.name), weight)
                                ELSE acc.tableNames,
                 tableYears |-> IF t.year # Null
                                THEN AddTo(acc.tableYears, StrOfYear(t.year), weight)
                                ELSE acc.tableYears])

\* lines 229-256
_build_facets(tables, table_counts) ==
    FacetLoop(tables, table_counts,
              [categories |-> <<>>, regions |-> <<>>, tableNames |-> <<>>, tableYears |-> <<>>])

\* lines 284-285: combined_counts[tid] = combined_counts.get(tid, 0) + count
MergeCounts(combined_counts, table_counts) ==
    [tid \in DOMAIN combined_counts \cup DOMAIN table_counts |->
        Get(combined_counts, tid, 0) + Get(table_counts, tid, 0)]

\* lines 282-285: one turn of the loop, on what _tables_for_db returned
CombineStep(combined_tables, combined_counts, result) ==
    [tables |-> combined_tables \o result.tables,
     counts |-> MergeCounts(combined_counts, result.table_counts)]

RECURSIVE CombineLoop(_, _, _, _, _)
\* lines 279-285: the tables and counts of the selected databases, one after
\* the other; load_records raising 404 ends the loop
CombineLoop(ds, dbs, query, permutations, acc) ==
    IF dbs = <<>>
    THEN [status |-> 200, tables |-> acc.tables, counts |-> acc.counts]
    ELSE IF load_records(ds.records, Head(dbs)) = Null
    THEN [status |-> 404, tables |-> <<>>, counts |-> <<>>]
    ELSE CombineLoop(ds, Tail(dbs), query, permutations,
            CombineStep(acc.tables, acc.counts,
                _tables_for_db(Head(dbs), ds.databaseAssignments, ds.metadata,
                               ds.databaseConfig, query, permutations,
                               Val(load_records(ds.records, Head(dbs))))))

\* line 289: the combined counts of the surviving tables
VisibleCounts(combined_tables, combined_counts) ==
    [tid \in {combined_tables[i].id : i \in 1..Len(combined_tables)} |->
        Get(combined_counts, tid, 0)]

Raised(status) == [status |-> status]

\* lines 289-292
Respond(combined_tables, combined_counts) ==
    [status |-> 200,
     tables |-> combined_tables,
     facets |-> _build_facets(combined_tables, VisibleCounts(combined_tables, combined_counts)),
     total |-> Len(combined_tables)]

\* lines 288-292, on what _filter_tables_by_filters returned or raised
AfterFilter(filtered, combined_counts, picked_tables) ==
    IF filtered.raised THEN Raised(500)
    ELSE Respond(_apply_picked_tables_constraint(filtered.tables, picked_tables),
                 combined_counts)

\* lines 287-292, on what the loop over the databases produced
AfterCombine(combined, filters, picked_tables) ==
    IF combined.status # 200 THEN Raised(combined.status)
    ELSE AfterFilter(_filter_tables_by_filters(combined.tables, filters),
                     combined.counts, picked_tables)

\* lines 272-292, on the de-duplicated database keys
SearchSelected(ds, selected_dbs, query, filters, permutations, picked_tables) ==
    IF selected_dbs = <<>> THEN Raised(400)
    ELSE IF \E db_key \in Items(selected_dbs) : db_key \notin DOMAIN ds.databaseAssignments
    THEN Raised(404)
    ELSE AfterCombine(CombineLoop(ds, selected_dbs, query, permutations,
                                  [tables |-> <<>>, counts |-> <<>>]),
                      filters, picked_tables)

\* lines 259-292; [status |-> 400 | 404 | 500] is the HTTP error raised
search_tables(ds, db_keys, query, filters, permutations, picked_tables) ==
    SearchSelected(ds, _dedupe_preserve_order(db_keys), query, filters, permutations,
                   picked_tables)

(***************************************************************************)
(* Pagination and row search: pagination.py, search_service.py             *)
(***************************************************************************)
\* a slice index of a list of length n: negative counts from the end, and
\* the result is clipped to 0..n
SliceIndex(i, n) == IF i < 0 THEN Max(i + n, 0) ELSE Min(i, n)

\* Python's rows[start:end]
Slice(rows, start, end) ==
    SubSeq(rows, SliceIndex(start, Len(rows)) + 1, SliceIndex(end, Len(rows)))

\* the next offset is one row too far
PageFromSkipping(rows, start, size, page_number) ==
    [rows |-> Slice(rows, start, start + size),
     pagination |-> [hasMore |-> start + size < Len(rows),
                     nextOffset |-> IF start + size < Len(rows) THEN Some(start + size + 1)
                                    ELSE Null,
                     pageNumber |-> page_number,
                     pageSize |-> size,
                     totalRecords |-> Len(rows)]]

\* pagination.py lines 7-20, on start = max(start_row, 0)
PageFrom(rows, start, size, page_number) ==
    [rows |-> Slice(rows, start, start + size),
     pagination |-> [hasMore |-> start + size < Len(rows),
                     nextOffset |-> IF start + size < Len(rows) THEN Some(start + size)
                                    ELSE Null,
                     pageNumber |-> page_number,
                     pageSize |-> size,
                     totalRecords |-> Len(rows)]]

\* pagination.py lines 4-20
paginate_rows(rows, start_row, size, page_number) ==
    PageFrom(rows, Max(start_row, 0), size, page_number)

\* lines 316-320 and 324-328: the empty result of an excluded table
EmptyRows(page_number, size_limit) ==
    [status |-> 200,
     columns |-> <<>>,
     rows |-> <<>>,
     pagination |-> [hasMore |-> FALSE, nextOffset |-> Null, pageNumber |-> page_number,
                     pageSize |-> size_limit, totalRecords |-> 0]]

\* lines 321-323: the picked-tables list excludes (db_key, table_key)
PickedExcludes(picked_tables, db_key, table_key) ==
    /\ picked_tables # Null
    /\ Val(picked_tables) # <<>>
    /\ AllowedPairs(Val(picked_tables)) # {}
    /\ <<Some(db_key), table_key>> \notin AllowedPairs(Val(picked_tables))
    /\ <<Null, table_key>> \notin AllowedPairs(Val(picked_tables))

\* lines 338-344: one record as the row of its column values, "" for a
\* missing or null value
RowOf(r, columns) ==
    [i \in 1..Len(columns) |->
        IF Get(r, columns[i], Some(<<>>)) = Null THEN <<>>
        ELSE Val(Get(r, columns[i], Some(<<>>)))]

\* lines 337-348, on the table's projection and the matching records
PageOfRecords(meta, filtered_records, page_number, start_row, size_limit) ==
    [status |-> 200,
     columns |-> meta.columns,
     rows |-> paginate_rows([i \in 1..Len(filtered_records) |->
                                RowOf(filtered_records[i], meta.columns)],
                            start_row, size_limit, page_number).rows,
     pagination |-> paginate_rows([i \in 1..Len(filtered_records) |->
                                      RowOf(filtered_records[i], meta.columns)],
                                  start_row, size_limit, page_number).pagination]

\* lines 330-348, on the records load_records returned for db_key
RowsOfTable(ds, table_key, query, permutations, page_number, start_row, size_limit, loaded) ==
    LET OfTable(r) == Get(r, "tableKey", Null) = Some(table_key)
    IN  IF _table_meta_from_key(table_key, ds.metadata, Null, Null, <<>>) = Null
        THEN Raised(404)
        ELSE PageOfRecords(Val(_table_meta_from_key(table_key, ds.metadata, Null, Null, <<>>)),
                           _apply_query_to_records(SelectSeq(loaded, OfTable), query,
                                                   ds.metadata, permutations),
                           page_number, start_row, size_limit)

\* lines 295-348; [status |-> 404] is the HTTP error raised
search_rows(ds, db_key, table_key, query, filters, permutations, picked_tables, page_number, start_row, size_limit) ==
    IF table_key \notin Items(Get(ds.databaseAssignments, db_key, <<>>)) THEN Raised(404)
    ELSE IF Truthy(filters.selectedTables) /\ table_key \notin Items(Val(filters.selectedTables))
    THEN EmptyRows(page_number, size_limit)
    ELSE IF PickedExcludes(picked_tables, db_key, table_key)
    THEN EmptyRows(page_number, size_limit)
    ELSE IF load_records(ds.records, db_key) = Null THEN Raised(404)
    ELSE RowsOfTable(ds, table_key, query, permutations, page_number, start_row, size_limit,
                     Val(load_records(ds.records, db_key)))

(***************************************************************************)
(* The strings, tables and records the evaluator is exercised on           *)
(***************************************************************************)
sEmpty == <<>>
sMex == <<"M", "e", "x">>
sEX == <<"E", "X">>
sJp == <<"j", "p">>
sQ == <<"q">>
sOn == <<"o", "n">>
s12 == <<"1", "2">>
s7 == <<"7">>
sSal == <<"S", "a", "l">>

T1 == <<"t", "1">>
T2 == <<"t", "2">>
T3 == <<"t", "3">>
T4 == <<"t", "4">>

Col(name, type) == [name |-> name, type |-> type]

\* one entry of metadata.json's "metadata" object
Meta(name, year, country, categories, recordCount, columns) ==
    [name |-> name, year |-> year, country |-> country, categories |-> categories,
     recordCount |-> recordCount, columns |-> columns]

ColsTyped == <<Col("country", "text"), Col("when", "date")>>
ColsText == <<Col("country", "text"), Col("when", "text")>>

\* T1 has a date column, T2 holds the same fields as text, T3 has no metadata
EvalMeta ==
    [t \in {T1, T2} |->
        IF t = T1
        THEN Meta(Some(sMex), Some(IntYear(12)), Some("MX"), <<"trade">>, 2, ColsTyped)
        ELSE Meta(Some(sSal), Some(StrYear(s12)), Some("JP"), <<"trade", "health">>, 1, ColsText)]

FieldVals == {Null, Some(sMex), Some(sJp), Some(s12)}

\* a record: tableKey plus any subset of the fields, each null or a string
RecordsOf(tableKeys) ==
    UNION {
        {r \in [D \cup {"tableKey"} -> FieldVals \cup {Some(t) : t \in tableKeys}] :
            /\ r["tableKey"] \in {Some(t) : t \in tableKeys}
            /\ \A f \in D : r[f] \in FieldVals}
        : D \in SUBSET {"country", "when"}}

EvalRecords == RecordsOf({T1, T2, T3})

Clause(value, bdt) == [type |-> "clause", value |-> value, bdt |-> bdt]
Operator(o) == [type |-> "operator", operator |-> o]
SubQuery(elements) == [type |-> "subQuery", elements |-> elements]

ClauseValues == {Null, Some(sEmpty), Some(sEX), Some(sQ), Some(sOn), Some(s12), Some(sJp)}
Bdts == {Null, Some("date"), Some("text")}
Clauses == {Clause(v, b) : v \in ClauseValues, b \in Bdts}

PermQ == [t \in {sQ} |-> <<sMex>>]
PermMany == [t \in {sQ, sEX} |-> IF t = sQ THEN <<s12, sJp>> ELSE <<>>]
PermMaps == {Null, Some(<<>>), Some(PermQ), Some(PermMany)}

\* the elements sequence queries are built from: two clauses whose results
\* vary independently over FoldRecords, a clause with no value, sub-queries
cA == Clause(Some(sEX), Null)
cB == Clause(Some(s12), Some("date"))
cNoValue == Clause(Null, Null)
AND == Operator(Some("AND"))
OR == Operator(Some("OR"))
SubQueries ==
    { SubQuery(<<>>), SubQuery(<<cB, OR, cA>>),
      SubQuery(<<SubQuery(<<cB>>), OR, cNoValue, AND, cA>>) }
FoldElements == {cA, cB, cNoValue} \cup SubQueries
FoldRecords ==
    {r \in RecordsOf({T1}) :
        /\ DOMAIN r = {"tableKey", "country", "when"}
        /\ r["country"] \in {Some(sMex), Some(sJp)}
        /\ r["when"] \in {Some(s12), Some(sJp)}}

\* the number of non-operator elements of a sequence query
MaxElems == 3

\* e1 op1 e2 ... en, n = k
RECURSIVE Alternating(_)
Alternating(k) ==
    IF k = 0 THEN {<<>>}
    ELSE IF k = 1 THEN {<<e>> : e \in FoldElements}
    ELSE {s \o <<o, e>> : s \in Alternating(k - 1), o \in {AND, OR}, e \in FoldElements}

SequenceQueries ==
    LET alt == UNION {Alternating(k) : k \in 0..MaxElems}
    IN  alt \cup {s \o <<o>> : s \in alt, o \in {AND, OR}}

(***************************************************************************)
(* The evaluator's requests                                                *)
(***************************************************************************)
EvalDataset == [metadata |-> EvalMeta, databaseAssignments |-> <<>>,
                databaseConfig |-> <<>>, records |-> <<>>]

EvalInit ==
    /\ dataset = EvalDataset
    /\ op = "idle"
    /\ args = <<>>
    /\ out = <<>>

EvaluateClause ==
    /\ op = "idle"
    /\ \E element \in Clauses, record \in EvalRecords, permutations \in PermMaps :
        /\ args' = [element |-> element, record |-> record, permutations |-> permutations]
        /\ out' = _evaluate_clause(element, record, dataset.metadata, permutations)
    /\ op' = "_evaluate_clause"
    /\ UNCHANGED dataset

EvaluateQueryElements ==
    /\ op = "idle"
    /\ \E elements \in SequenceQueries, record \in FoldRecords :
        /\ args' = [elements |-> elements, record |-> record, permutations |-> Null]
        /\ out' = _evaluate_query_elements(elements, record, dataset.metadata, Null)
    /\ op' = "_evaluate_query_elements"
    /\ UNCHANGED dataset

EvalNext == EvaluateClause \/ EvaluateQueryElements

Spec == EvalInit /\ [][EvalNext]_vars

(***************************************************************************)
(* Claims about the evaluator                                              *)
(***************************************************************************)
\* v is a case-insensitive substring of text
ContainsIgnoreCase(v, text) ==
    \E i \in 0..(Len(text) - Len(v)) :
        \A k \in 1..Len(v) : LowerChar(v[k]) = LowerChar(text[i + k])

\* the value itself and the variants the permutation map lists for it
VariantsOf(value, permutations) ==
    {value} \cup (IF permutations # Null /\ value \in DOMAIN Val(permutations)
                  THEN Items(Val(permutations)[value])
                  ELSE {})

RECURSIVE FoldValue(_, _, _, _)
\* the result of one clause or sub-query
ElementValue(e, record, table_meta, permutations) ==
    IF e.type = "subQuery"
    THEN FoldValue(e.elements, record, table_meta, permutations)
    ELSE _evaluate_clause(e, record, table_meta, permutations)

\* ((e1 op1 e2) op2 e3) ... read off the sequence from its right end; an
\* operator in last position is dropped, the empty sequence is true
FoldValue(s, record, table_meta, permutations) ==
    IF s = <<>> THEN TRUE
    ELSE IF s[Len(s)].type = "operator"
    THEN FoldValue(SubSeq(s, 1, Len(s) - 1), record, table_meta, permutations)
    ELSE IF Len(s) = 1
    THEN ElementValue(s[1], record, table_meta, permutations)
    ELSE LET left == FoldValue(SubSeq(s, 1, Len(s) - 2), record, table_meta, permutations)
             right == ElementValue(s[Len(s)], record, table_meta, permutations)
         IN  IF s[Len(s) - 1] = AND THEN left /\ right ELSE left \/ right

\* C1: a sequence query e1 op1 e2 ... en evaluates to the strict left-to-right
\* fold ((e1 op1 e2) op2 e3) ..., with no precedence of AND over OR; [e1]
\* evaluates to e1's result, the empty sequence to true, and an operator in
\* last position changes nothing.
C1_LeftFold ==
    op = "_evaluate_query_elements" =>
        out = FoldValue(args.elements, args.record, dataset.metadata, args.permutations)

\* C1 witness: e1 OR e2 AND e3 with e1 true and e3 false came out false, where
\* AND binding tighter than OR would have given true
C1_Witness ==
    /\ op = "_evaluate_query_elements"
    /\ Len(args.elements) = 5
    /\ args.elements[2] = OR
    /\ args.elements[4] = AND
    /\ ElementValue(args.elements[1], args.record, dataset.metadata, args.permutations)
    /\ ~ElementValue(args.elements[5], args.record, dataset.metadata, args.permutations)
    /\ out = FALSE

\* C2: a clause with a value and no bdt matches a record iff the value or one
\* of the variants the permutation map lists for it is a case-insensitive
\* substring of some non-null field value of the record; a clause whose value
\* is absent never matches.
C2_UntypedClause ==
    (op = "_evaluate_clause" /\ args.element.bdt = Null) =>
        out = (/\ args.element.value # Null
               /\ \E f \in DOMAIN args.record :
                    /\ args.record[f] # Null
                    /\ \E v \in VariantsOf(Val(args.element.value), args.permutations) :
                           ContainsIgnoreCase(v, Val(args.record[f])))

\* C2 witness: the map sends "q" to ["Mex"], the record holds "Mex" and no
\* "q", and the clause with value "q" matched
C2_Witness ==
    /\ op = "_evaluate_clause"
    /\ args.element = Clause(Some(sQ), Null)
    /\ args.permutations = Some(PermQ)
    /\ \E f \in DOMAIN args.record : args.record[f] = Some(sMex)
    /\ \A f \in DOMAIN args.record :
           args.record[f] # Null => ~ContainsIgnoreCase(sQ, Val(args.record[f]))
    /\ out = TRUE

\* the record's value in a column, a missing or null value being ""
CellText(record, col) ==
    IF col \in DOMAIN record /\ record[col] # Null THEN Val(record[col]) ELSE <<>>

\* C3: a clause with a bdt is true iff some variant is a substring of the
\* record's value in a column of the owning table whose type-tag is that bdt
\* (a missing value counting as the empty string); it is false when the table
\* has no metadata or no column of that type.
C3_TypedClause ==
    (op = "_evaluate_clause" /\ args.element.bdt # Null /\ args.element.value # Null) =>
        out = (/\ Val(args.record["tableKey"]) \in DOMAIN dataset.metadata
               /\ LET cols == dataset.metadata[Val(args.record["tableKey"])].columns
                  IN  \E i \in 1..Len(cols) :
                        /\ cols[i].type = Val(args.element.bdt)
                        /\ \E v \in VariantsOf(Val(args.element.value), args.permutations) :
                               ContainsIgnoreCase(v, CellText(args.record, cols[i].name)))

\* C3 restricted to records whose typed columns hold no null
C3_TypedClauseNoNull ==
    (op = "_evaluate_clause" /\ \A f \in DOMAIN args.record : args.record[f] # Null)
        => C3_TypedClause

(***************************************************************************)
(* The dataset search_tables and search_rows are exercised on              *)
(***************************************************************************)
Rec(table_key, country, when) ==
    [f \in {"tableKey", "country", "when"} |->
        CASE f = "tableKey" -> Some(table_key)
          [] f = "country" -> country
          [] OTHER -> when]

\* T1 is assigned to both databases, T3 has no metadata, T4 has no year, no
\* country, no categories and (in some datasets) no name; db2 also holds a
\* record of T2, which is assigned to db1 only
SearchMeta(year2, name4, count1) ==
    [t \in {T1, T2, T4} |->
        CASE t = T1 -> Meta(Some(sMex), Some(IntYear(12)), Some("MX"), <<"trade">>,
                            count1, ColsTyped)
          [] t = T2 -> Meta(Some(sSal), year2, Some("JP"), <<"trade", "health">>,
                            1, ColsText)
          [] OTHER -> Meta(name4, Null, Null, <<>>, 0, ColsTyped)]

SearchAssignments ==
    [d \in {"db1", "db2"} |-> IF d = "db1" THEN <<T1, T2, T3>> ELSE <<T4, T1>>]

SearchConfig ==
    [d \in {"db1", "db2"} |->
        [name |-> IF d = "db1" THEN Some(<<"A">>) ELSE Some(<<"B">>)]]

SearchRecords ==
    [d \in {"db1", "db2"} |->
        IF d = "db1"
        THEN <<Rec(T1, Some(sMex), Some(s12)), Rec(T1, Some(sJp), Some(s12)),
               Rec(T2, Some(sMex), Null), Rec(T3, Some(sJp), Some(sJp))>>
        ELSE <<Rec(T4, Some(sMex), Some(sJp)), Rec(T1, Some(sJp), Some(sJp)),
               Rec(T2, Some(sMex), Some(s12))>>]

SearchDatasets ==
    {[metadata |-> SearchMeta(year2, name4, count1),
      databaseAssignments |-> SearchAssignments,
      databaseConfig |-> SearchConfig,
      records |-> SearchRecords] :
        year2 \in {Null, Some(IntYear(7)), Some(StrYear(s12)), Some(StrYear(sJp))},
        name4 \in {Null, Some(sEX)},
        count1 \in {0, 2}}

DbKeys == {"db1", "db2", "dbX"}

\* the length of the requested database list
MaxDbs == 3

DbLists == UNION {[1..k -> DbKeys] : k \in 0..MaxDbs}

TableQueries ==
    {Null, ListQuery(<<>>), StrQuery(sEX), ListQuery(<<cA>>), ListQuery(<<cB>>),
     ListQuery(<<cA, AND, cB>>), ListQuery(<<Clause(Some(sQ), Null)>>)}

NoFilters ==
    [tableName |-> Null, year |-> Null, category |-> Null, country |-> Null,
     selectedTables |-> Null, categories |-> Null, regions |-> Null,
     tableNames |-> Null, tableYears |-> Null]

\* every predicate absent or at one value, in every combination
FilterCombos ==
    [tableName : {Null, Some(sEX)},
     year : {Null, Some(StrYear(s12))},
     category : {Null, Some("trade")},
     country : {Null, Some("MX")},
     selectedTables : {Null, Some(<<T1, T4>>)},
     categories : {Null, Some(<<"health", "trade">>)},
     regions : {Null, Some(<<"MX", "JP">>)},
     tableNames : {Null, Some(<<sMex, sEX>>)},
     tableYears : {Null, Some(<<IntYear(12)>>)}]

\* one predicate at a time, over more values
SingleFilters ==
    {[NoFilters EXCEPT !.tableName = v] : v \in {Some(sEmpty), Some(sMex), Some(sJp)}}
    \cup {[NoFilters EXCEPT !.year = v] :
            v \in {Some(StrYear(sAll)), Some(IntYear(12)), Some(IntYear(7)),
                   Some(StrYear(s7)), Some(StrYear(sJp)), Some(StrYear(sEmpty))}}
    \cup {[NoFilters EXCEPT !.category = v] : v \in {Some("all"), Some("health"), Some("none")}}
    \cup {[NoFilters EXCEPT !.country = v] : v \in {Some("all"), Some("JP"), Some("XX")}}
    \cup {[NoFilters EXCEPT !.selectedTables = v] : v \in {Some(<<>>), Some(<<T2>>), Some(<<T3>>)}}
    \cup {[NoFilters EXCEPT !.categories = v] : v \in {Some(<<>>), Some(<<"health">>)}}
    \cup {[NoFilters EXCEPT !.regions = v] : v \in {Some(<<>>), Some(<<"JP">>)}}
    \cup {[NoFilters EXCEPT !.tableNames = v] : v \in {Some(<<>>), Some(<<sSal>>)}}
    \cup {[NoFilters EXCEPT !.tableYears = v] :
            v \in {Some(<<>>), Some(<<StrYear(s12), IntYear(7)>>), Some(<<StrYear(sNone)>>)}}

PickEntry(db, table) == [db |-> db, table |-> table]

\* a pair of the dataset, T1 of the other database, a database-less entry, an
\* entry with no table, and two pairs that name no table of the dataset
PickEntries ==
    {PickEntry(Some("db1"), Some(T1)), PickEntry(Some("db2"), Some(T1)),
     PickEntry(Null, Some(T2)), PickEntry(Some("db1"), Null),
     PickEntry(Some("db2"), Some(T2)), PickEntry(Some("dbX"), Some(T4))}

\* the length of the picked-tables list
MaxPicked == 2

PickedLists == {Null} \cup {Some(l) : l \in UNION {[1..k -> PickEntries] : k \in 0..MaxPicked}}

\* the length of the table list and the largest weight given to the facet builder
MaxFacetTables == 2
MaxWeight == 2

Projections(ds) ==
    {Val(_table_meta_from_key(t, ds.metadata, Null, Some("db1"), ds.databaseConfig)) :
        t \in DOMAIN ds.metadata}

WeightMaps == UNION {[D -> {0, MaxWeight}] : D \in SUBSET {T1, T2, T4}}

(***************************************************************************)
(* search_tables requests                                                  *)
(***************************************************************************)
TablesInit ==
    /\ dataset \in SearchDatasets
    /\ op = "idle"
    /\ args = <<>>
    /\ out = <<>>

SearchTablesCall(db_keys, query, filters, permutations, picked_tables) ==
    /\ op' = "search_tables"
    /\ args' = [db_keys |-> db_keys, query |-> query, filters |-> filters,
                permutations |-> permutations, picked_tables |-> picked_tables]
    /\ out' = search_tables(dataset, db_keys, query, filters, permutations, picked_tables)
    /\ UNCHANGED dataset

\* any list of databases, any query
SearchTablesDatabases ==
    /\ op = "idle"
    /\ \E db_keys \in DbLists, query \in TableQueries, permutations \in {Null, Some(PermQ)} :
           SearchTablesCall(db_keys, query, NoFilters, permutations, Null)

\* both databases under any filters
SearchTablesFiltered ==
    /\ op = "idle"
    /\ \E query \in {Null, ListQuery(<<cA>>)}, filters \in FilterCombos \cup SingleFilters :
           SearchTablesCall(<<"db1", "db2">>, query, filters, Null, Null)

\* any picked-tables list, after no filter or one
SearchTablesPicked ==
    /\ op = "idle"
    /\ \E db_keys \in {<<"db1">>, <<"db2", "db1">>},
          query \in {Null, ListQuery(<<cA>>)},
          filters \in {NoFilters, [NoFilters EXCEPT !.category = Some("trade")]},
          picked_tables \in PickedLists :
           SearchTablesCall(db_keys, query, filters, Null, picked_tables)

\* the facet builder on its own, over any table list and weight map
BuildFacets ==
    /\ op = "idle"
    /\ \E tables \in UNION {[1..k -> Projections(dataset)] : k \in 0..MaxFacetTables},
          table_counts \in WeightMaps :
        /\ args' = [tables |-> tables, table_counts |-> table_counts]
        /\ out' = _build_facets(tables, table_counts)
    /\ op' = "_build_facets"
    /\ UNCHANGED dataset

TablesNext ==
    SearchTablesDatabases \/ SearchTablesFiltered \/ SearchTablesPicked \/ BuildFacets

TablesSpec == TablesInit /\ [][TablesNext]_vars

(***************************************************************************)
(* Claims about search_tables and the facet builder                        *)
(***************************************************************************)
\* the requested keys are a non-empty list of databases of the dataset
KnownDatabases ==
    /\ args.db_keys # <<>>
    /\ \A k \in Items(args.db_keys) : k \in DOMAIN dataset.databaseAssignments

\* what the loop over the requested databases collected for the call in args
Combined ==
    CombineLoop(dataset, _dedupe_preserve_order(args.db_keys), args.query,
                args.permutations, [tables |-> <<>>, counts |-> <<>>])

\* the tables that passed the filters
Passed == _filter_tables_by_filters(Combined.tables, args.filters).tables

\* the list holds the table's (database, table) pair or names the table with
\* no database
PickedAdmits(picked_tables, t) ==
    \E e \in Items(picked_tables) :
        e.table = Some(t.id) /\ (e.db = t.dbId \/ e.db = Null)

\* C4: with a non-empty pickedTables, a table that passed the filters survives
\* iff the list holds its (database, table) pair or an entry naming it with no
\* database; a list that names none of them (or has no usable entry) gives
\* the empty result, total = 0; an absent list constrains nothing.
C4_PickedTables ==
    (op = "search_tables" /\ out.status = 200) =>
        LET Admitted(t) == PickedAdmits(Val(args.picked_tables), t)
        IN  /\ (args.picked_tables # Null /\ Val(args.picked_tables) # <<>>) =>
                  /\ out.tables = SelectSeq(Passed, Admitted)
                  /\ (\A i \in 1..Len(Passed) : ~Admitted(Passed[i])) =>
                         (out.tables = <<>> /\ out.total = 0)
            /\ args.picked_tables = Null => out.tables = Passed

\* C4 witness: a list with a database-less entry let that table through and
\* kept others out
C4_Witness ==
    /\ op = "search_tables"
    /\ out.status = 200
    /\ args.picked_tables # Null
    /\ \E i \in 1..Len(out.tables) :
          /\ PickEntry(Null, Some(out.tables[i].id)) \in Items(Val(args.picked_tables))
          /\ PickEntry(out.tables[i].dbId, Some(out.tables[i].id))
                \notin Items(Val(args.picked_tables))
    /\ Len(out.tables) < Len(Passed)

\* the position of the first x in s
FirstIndex(s, x) == CHOOSE i \in 1..Len(s) : s[i] = x /\ \A j \in 1..(i - 1) : s[j] # x

\* C5: the tables come database by database in the order the databases were
\* requested (a repeated key counting once, at its first position), within a
\* database in its assignment order; each is assigned to the database it is
\* annotated with; total is the number of tables returned.
C5_DatabaseOrder ==
    (op = "search_tables" /\ out.status = 200) =>
        /\ out.total = Len(out.tables)
        /\ \A i \in 1..Len(out.tables) :
              /\ out.tables[i].dbId # Null
              /\ Val(out.tables[i].dbId) \in Items(args.db_keys)
              /\ out.tables[i].id \in Items(dataset.databaseAssignments[Val(out.tables[i].dbId)])
        /\ \A i, j \in 1..Len(out.tables) :
              i < j =>
                LET di == FirstIndex(args.db_keys, Val(out.tables[i].dbId))
                    dj == FirstIndex(args.db_keys, Val(out.tables[j].dbId))
                    assigned == dataset.databaseAssignments[Val(out.tables[i].dbId)]
                IN  /\ di <= dj
                    /\ di = dj => FirstIndex(assigned, out.tables[i].id)
                                    < FirstIndex(assigned, out.tables[j].id)

\* C5 witness: db2, db1, db2 was requested and the two tables of db2 came
\* first, then the two of db1
C5_Witness ==
    /\ op = "search_tables"
    /\ out.status = 200
    /\ args.db_keys = <<"db2", "db1", "db2">>
    /\ [i \in 1..Len(out.tables) |-> out.tables[i].id] = <<T4, T1, T1, T2>>

\* C6: search_tables raises the client-input error on an empty key list, the
\* not-found error when a requested key is not in the assignment map, and for
\* every other input returns a result; a table without metadata is dropped.
C6_Errors ==
    op = "search_tables" =>
        /\ out.status = (IF args.db_keys = <<>> THEN 400
                         ELSE IF ~KnownDatabases THEN 404
                         ELSE 200)
        /\ out.status = 200 =>
              \A i \in 1..Len(out.tables) : out.tables[i].id \in DOMAIN dataset.metadata

\* C6 restricted to the calls where no candidate table lacks a name
C6_ErrorsWhenNamed ==
    (op = "search_tables"
        /\ (KnownDatabases => \A i \in 1..Len(Combined.tables) : Combined.tables[i].name # Null))
        => C6_Errors

RECURSIVE SumSeq(_)
\* the sum of a list of numbers
SumSeq(s) == IF s = <<>> THEN 0 ELSE Head(s) + SumSeq(Tail(s))

Occurrences(s, x) == Cardinality({i \in 1..Len(s) : s[i] = x})

\* the weight the map gives a table, 1 in place of 0
FacetWeight(weights, id) == IF weights[id] = 0 THEN 1 ELSE weights[id]

\* each facet as the sum, over the tables that carry the key, of their weights
ExpectedFacets(tables, weights) ==
    LET n == Len(tables)
        W(i) == FacetWeight(weights, tables[i].id)
        HasCountry(i) == tables[i].country # Null /\ Val(tables[i].country) # ""
        HasName(i) == tables[i].name # Null /\ Val(tables[i].name) # <<>>
        HasYear(i) == tables[i].year # Null
    IN  [categories |->
            [c \in UNION {Items(tables[i].categories) : i \in 1..n} |->
                LET Part(i) == W(i) * Occurrences(tables[i].categories, c)
                IN  SumSeq([i \in 1..n |-> Part(i)])],
         regions |->
            [k \in {Val(tables[i].country) : i \in {j \in 1..n : HasCountry(j)}} |->
                LET Part(i) == IF HasCountry(i) /\ Val(tables[i].country) = k THEN W(i) ELSE 0
                IN  SumSeq([i \in 1..n |-> Part(i)])],
         tableNames |->
            [k \in {Val(tables[i].name) : i \in {j \in 1..n : HasName(j)}} |->
                LET Part(i) == IF HasName(i) /\ Val(tables[i].name) = k THEN W(i) ELSE 0
                IN  SumSeq([i \in 1..n |-> Part(i)])],
         tableYears |->
            [k \in {StrOfYear(tables[i].year) : i \in {j \in 1..n : HasYear(j)}} |->
                LET Part(i) == IF HasYear(i) /\ StrOfYear(tables[i].year) = k THEN W(i) ELSE 0
                IN  SumSeq([i \in 1..n |-> Part(i)])]]

\* C9: the facet builder adds each table's weight from the weight map to
\* categories[c] for every category c, to regions[country], tableNames[name]
\* and tableYears[str(year)] when set, a weight of 0 counting as 1; in
\* search_tables the facets are built from the surviving tables only.
C9_Facets ==
    /\ (op = "_build_facets"
          /\ \A i \in 1..Len(args.tables) : args.tables[i].id \in DOMAIN args.table_counts)
        => out = ExpectedFacets(args.tables, args.table_counts)
    /\ (op = "search_tables" /\ out.status = 200)
        => out.facets = ExpectedFacets(out.tables, Combined.counts)

\* C9 witness: without a query T4, whose record count is 0, survived and
\* counts 1 under its name
C9_Witness ==
    /\ op = "search_tables"
    /\ out.status = 200
    /\ args.query = Null
    /\ \E i \in 1..Len(out.tables) : out.tables[i].id = T4 /\ out.tables[i].count = 0
    /\ sEX \in DOMAIN out.facets.tableNames
    /\ out.facets.tableNames[sEX] = 1

\* the table satisfies every active predicate of the filters
SatisfiesAll(t, f) ==
    /\ Truthy(f.selectedTables) => t.id \in Items(Val(f.selectedTables))
    /\ Truthy(f.tableName) =>
          (t.name # Null /\ ContainsIgnoreCase(Val(f.tableName), Val(t.name)))
    /\ (f.year # Null /\ f.year # Some(StrYear(sAll))) =>
          (ToInt(t.year) # Null /\ ToInt(f.year) # Null /\ ToInt(t.year) = ToInt(f.year))
    /\ (f.category # Null /\ f.category # Some("all")) =>
          Val(f.category) \in Items(t.categories)
    /\ (f.country # Null /\ f.country # Some("all")) => t.country = f.country
    /\ Truthy(f.categories) => Items(Val(f.categories)) \cap Items(t.categories) # {}
    /\ Truthy(f.regions) => (t.country # Null /\ Val(t.country) \in Items(Val(f.regions)))
    /\ Truthy(f.tableNames) => (t.name # Null /\ Val(t.name) \in Items(Val(f.tableNames)))
    /\ Truthy(f.tableYears) =>
          \E y \in Items(Val(f.tableYears)) : StrOfYear(t.year) = StrOfYear(Some(y))

\* C10: the tables that survive filtering are exactly the candidates that
\* satisfy every active predicate, in their original order; absent and "all"
\* predicates have no effect; the year predicate compares after numeric
\* coercion and excludes the table, raising nothing, when coercion fails.
C10_Filters ==
    (op = "search_tables" /\ KnownDatabases /\ args.picked_tables = Null) =>
        LET Satisfies(t) == SatisfiesAll(t, args.filters)
        IN  /\ out.status = 200
            /\ out.tables = SelectSeq(Combined.tables, Satisfies)

\* C10 restricted to the calls where no candidate table lacks a name
C10_FiltersWhenNamed ==
    (op = "search_tables"
        /\ (KnownDatabases => \A i \in 1..Len(Combined.tables) : Combined.tables[i].name # Null))
        => C10_Filters

(***************************************************************************)
(* search_rows and paginate_rows requests                                  *)
(***************************************************************************)
RowsDatasets == {ds \in SearchDatasets : ds.metadata[T2].year = Null}

RowsInit ==
    /\ dataset \in RowsDatasets
    /\ op = "idle"
    /\ args = <<>>
    /\ out = <<>>

SearchRowsCall(db_key, table_key, query, filters, permutations, picked_tables, page_number, start_row, size_limit) ==
    /\ op' = "search_rows"
    /\ args' = [db_key |-> db_key, table_key |-> table_key, query |-> query,
                filters |-> filters, permutations |-> permutations,
                picked_tables |-> picked_tables, page_number |-> page_number,
                start_row |-> start_row, size_limit |-> size_limit]
    /\ out' = search_rows(dataset, db_key, table_key, query, filters, permutations,
                          picked_tables, page_number, start_row, size_limit)
    /\ UNCHANGED dataset

\* the largest startRow and sizeLimit requested, and how far below 0 they go
MaxStart == 3
MaxSize == 3
MaxBelowZero == 2

\* any table of any database under any selectedTables and picked-tables list
SearchRowsPicked ==
    /\ op = "idle"
    /\ \E db_key \in DbKeys, table_key \in {T1, T2, T3, T4},
          query \in {Null, ListQuery(<<cA>>)},
          selected \in {Null, Some(<<>>), Some(<<T1>>), Some(<<T2, T4>>)},
          picked_tables \in PickedLists :
           SearchRowsCall(db_key, table_key, query, [NoFilters EXCEPT !.selectedTables = selected],
                          Null, picked_tables, 1, 0, MaxSize)

\* any page of any table
SearchRowsPaged ==
    /\ op = "idle"
    /\ \E db_key \in {"db1", "db2"}, table_key \in {T1, T2, T4},
          query \in {Null, StrQuery(sEX), ListQuery(<<Clause(Some(sQ), Null)>>)},
          page_number \in 1..2,
          start_row \in (0 - MaxBelowZero)..MaxStart,
          size_limit \in (0 - MaxBelowZero)..MaxSize :
           SearchRowsCall(db_key, table_key, query, NoFilters, Some(PermQ), Null,
                          page_number, start_row, size_limit)

RowsNext == SearchRowsPicked \/ SearchRowsPaged

RowsSpec == RowsInit /\ [][RowsNext]_vars

\* the length of the row list given to the pagination helper
MaxRows == 4

PageInit ==
    /\ dataset = EvalDataset
    /\ op = "idle"
    /\ args = <<>>
    /\ out = <<>>

\* the pagination helper on its own: rows "1", "2", ... of one cell each
PaginateRows ==
    /\ op = "idle"
    /\ \E total \in 0..MaxRows, page_number \in 1..2,
          start_row \in (0 - MaxBelowZero)..(MaxRows + 1),
          size \in (0 - MaxBelowZero)..(MaxRows + 1) :
        /\ args' = [rows |-> [i \in 1..total |-> <<IntToStr(i)>>], start_row |-> start_row,
                    size |-> size, page_number |-> page_number]
        /\ out' = paginate_rows([i \in 1..total |-> <<IntToStr(i)>>], start_row, size,
                                page_number)
    /\ op' = "paginate_rows"
    /\ UNCHANGED dataset

PageNext == PaginateRows

PageSpec == PageInit /\ [][PageNext]_vars

(***************************************************************************)
(* Claims about search_rows and paginate_rows                              *)
(***************************************************************************)
\* the table of the call is assigned to its database
Assigned ==
    args.table_key \in Items(Get(dataset.databaseAssignments, args.db_key, <<>>))

\* selectedTables is non-empty and does not contain the table
SelectedExcludes ==
    /\ Truthy(args.filters.selectedTables)
    /\ args.table_key \notin Items(Val(args.filters.selectedTables))

\* pickedTables is non-empty and holds neither the (database, table) pair
\* nor a database-less entry for the table
PickedHoldsNeither ==
    /\ args.picked_tables # Null
    /\ Val(args.picked_tables) # <<>>
    /\ PickEntry(Some(args.db_key), Some(args.table_key)) \notin Items(Val(args.picked_tables))
    /\ PickEntry(Null, Some(args.table_key)) \notin Items(Val(args.picked_tables))

\* C7: for a table assigned to the requested database, if selectedTables is
\* non-empty without the table, or pickedTables is non-empty with neither the
\* pair nor a database-less entry for the table, search_rows returns the
\* empty result (no columns, no rows, hasMore false, nextOffset null,
\* totalRecords 0, pageNumber and pageSize as requested) and no error.
C7_SoftEmpty ==
    (op = "search_rows" /\ Assigned /\ (SelectedExcludes \/ PickedHoldsNeither)) =>
        /\ out.status = 200
        /\ out.columns = <<>>
        /\ out.rows = <<>>
        /\ out.pagination = [hasMore |-> FALSE, nextOffset |-> Null,
                             pageNumber |-> args.page_number,
                             pageSize |-> args.size_limit, totalRecords |-> 0]

\* C7 restricted to picked-tables lists in which some entry names a table
C7_SoftEmptyWhenTableNamed ==
    (op = "search_rows"
        /\ (args.picked_tables # Null =>
              (Val(args.picked_tables) = <<>>
               \/ \E e \in Items(Val(args.picked_tables)) : e.table # Null)))
        => C7_SoftEmpty

\* C8: for a row list of length T, startRow s and sizeLimit n, the helper
\* returns exactly max(0, min(n, T - s)) rows and hasMore = ((s + n) < T).
C8_PageBounds ==
    op = "paginate_rows" =>
        /\ Len(out.rows) = Max(0, Min(args.size, Len(args.rows) - args.start_row))
        /\ out.pagination.hasMore = (args.start_row + args.size < Len(args.rows))

\* C8 restricted to startRow >= 0 and sizeLimit >= 0
C8_PageBoundsNonNegative ==
    (op = "paginate_rows" /\ args.start_row >= 0 /\ args.size >= 0) => C8_PageBounds

\* C8 with startRow clamped at 0, for sizeLimit >= 0
C8_PageBoundsClamped ==
    (op = "paginate_rows" /\ args.size >= 0) =>
        /\ Len(out.rows) = Max(0, Min(args.size, Len(args.rows) - Max(args.start_row, 0)))
        /\ out.pagination.hasMore = (Max(args.start_row, 0) + args.size < Len(args.rows))

(***************************************************************************)
(* A client that asks search_tables for one database and search_rows for   *)
(* one of its tables, with the same query, filters, permutations and       *)
(* picked-tables list                                                      *)
(***************************************************************************)
PairInit ==
    /\ dataset \in SearchDatasets
    /\ op = "idle"
    /\ args = <<>>
    /\ out = <<>>

TablesThenRows(db_key, table_key, query, filters, permutations, picked_tables) ==
    /\ op' = "tables_then_rows"
    /\ args' = [db_key |-> db_key, table_key |-> table_key, query |-> query,
                filters |-> filters, permutations |-> permutations,
                picked_tables |-> picked_tables]
    /\ out' = [tables |-> search_tables(dataset, <<db_key>>, query, filters, permutations,
                                        picked_tables),
               rows |-> search_rows(dataset, db_key, table_key, query, filters, permutations,
                                    picked_tables, 1, 0, MaxSize)]
    /\ UNCHANGED dataset

PairQueries ==
    {Null, ListQuery(<<>>), StrQuery(sEX), ListQuery(<<cA>>), ListQuery(<<cB>>),
     ListQuery(<<cA, OR, cB>>), ListQuery(<<Clause(Some(sQ), Null)>>)}

PairFilters ==
    {NoFilters, [NoFilters EXCEPT !.selectedTables = Some(<<T1, T4>>)],
     [NoFilters EXCEPT !.category = Some("trade")],
     [NoFilters EXCEPT !.tableName = Some(sEX)]}

PairPicked ==
    {Null, Some(<<>>), Some(<<PickEntry(Null, Some(T1))>>),
     Some(<<PickEntry(Some("db1"), Some(T2)), PickEntry(Some("db2"), Some(T1))>>)}

\* any query, under some filters and picked-tables lists
TablesThenRowsQuery ==
    /\ op = "idle"
    /\ \E db_key \in {"db1", "db2"}, table_key \in {T1, T2, T3, T4},
          query \in PairQueries, permutations \in {Null, Some(PermQ)},
          filters \in PairFilters, picked_tables \in PairPicked :
           TablesThenRows(db_key, table_key, query, filters, permutations, picked_tables)

\* any picked-tables list, with no query and no filters
TablesThenRowsPicked ==
    /\ op = "idle"
    /\ \E db_key \in {"db1", "db2"}, table_key \in {T1, T2, T3, T4},
          picked_tables \in PickedLists :
           TablesThenRows(db_key, table_key, Null, NoFilters, Null, picked_tables)

PairNext == TablesThenRowsQuery \/ TablesThenRowsPicked

PairSpec == PairInit /\ [][PairNext]_vars

(***************************************************************************)
(* Claims about search_tables and search_rows together                     *)
(***************************************************************************)
\* C11: for a database d, a non-empty query and a table t that
\* search_tables([d], ...) returns, the count reported for t equals
\* pagination.totalRecords of search_rows(d, t, ...) with the same query,
\* filters, permutations and picked-tables list.
C11_CountIsTotalRecords ==
    (op = "tables_then_rows" /\ QueryPresent(args.query) /\ out.tables.status = 200) =>
        \A i \in 1..Len(out.tables.tables) :
            out.tables.tables[i].id = args.table_key =>
                /\ out.rows.status = 200
                /\ out.rows.pagination.totalRecords = out.tables.tables[i].count

\* C11 witness: under a query a returned table has fewer matching records
\* than its declared recordCount, and search_rows found that many
C11_Witness ==
    /\ op = "tables_then_rows"
    /\ QueryPresent(args.query)
    /\ out.tables.status = 200
    /\ out.rows.status = 200
    /\ \E i \in 1..Len(out.tables.tables) :
          /\ out.tables.tables[i].id = args.table_key
          /\ out.tables.tables[i].count = 1
          /\ dataset.metadata[args.table_key].recordCount = 2
          /\ out.rows.pagination.totalRecords = 1

(***************************************************************************)
(* Term permutation expander: permutations.py, routes.py                   *)
(***************************************************************************)
\* term[::-1]
Reversed(term) == [k \in 1..Len(term) |-> term[Len(term) + 1 - k]]

RECURSIVE Repeat(_, _)
\* term * i
Repeat(term, i) == IF i <= 0 THEN <<>> ELSE term \o Repeat(term, i - 1)

\* every level gives 2 repetitions
MaxRepAlwaysLow(level) == 2

\* permutations.py line 9: {"low": 2, "medium": 3, "high": 4}.get(level, 2)
MaxRepOf(level) ==
    CASE level = "low" -> 2
      [] level = "medium" -> 3
      [] level = "high" -> 4
      [] OTHER -> 2

\* permutations.py line 8: (params or {}).get("level", "low")
LevelOf(params) ==
    IF params = Null THEN "low" ELSE Get(Val(params), "level", "low")

\* permutations.py lines 10-13, on max_rep
DoubleUpTo(term, max_rep) == [k \in 1..Max(max_rep, 1) |-> Repeat(term, k)]

\* permutations.py lines 4-15
apply_permutation(term, permutation_id, params) ==
    IF permutation_id = "reverse" THEN <<term, Reversed(term)>>
    ELSE IF permutation_id = "double" THEN DoubleUpTo(term, MaxRepOf(LevelOf(params)))
    ELSE <<term>>

\* permutations.py lines 18-22: a dict keyed by the terms
expand_terms(terms, permutation_id, params) ==
    [term \in Items(terms) |-> apply_permutation(term, permutation_id, params)]

\* routes.py lines 55-60; [status |-> 400] is the HTTP error raised
permutations_route(terms, permutation_id, params) ==
    IF terms = <<>> THEN Raised(400)
    ELSE [status |-> 200, permutations |-> expand_terms(terms, permutation_id, params)]

sA == <<"a">>
sAb == <<"a", "b">>
sXyz == <<"x", "y", "z">>
Terms == {sEmpty, sA, sAb, sXyz}

\* the length of the terms list
MaxTerms == 2

TermLists == UNION {[1..k -> Terms] : k \in 0..MaxTerms}
PermutationIds == {"reverse", "double", "none", "shuffle"}
PermParams ==
    {Null, Some(<<>>)} \cup {Some([k \in {"level"} |-> l]) : l \in {"low", "medium", "high", "max"}}

PermInit ==
    /\ dataset = EvalDataset
    /\ op = "idle"
    /\ args = <<>>
    /\ out = <<>>

\* POST /permutations
PermutationsRoute ==
    /\ op = "idle"
    /\ \E terms \in TermLists, permutation_id \in PermutationIds, params \in PermParams :
        /\ args' = [terms |-> terms, permutation_id |-> permutation_id, params |-> params]
        /\ out' = permutations_route(terms, permutation_id, params)
    /\ op' = "permutations_route"
    /\ UNCHANGED dataset

PermNext == PermutationsRoute

PermSpec == PermInit /\ [][PermNext]_vars

(***************************************************************************)
(* Claims about the permutation expander                                   *)
(***************************************************************************)
RECURSIVE Rev(_)
\* the characters of t in the opposite order
Rev(t) == IF t = <<>> THEN <<>> ELSE Rev(Tail(t)) \o <<Head(t)>>

\* t written n times
Times(t, n) == [k \in 1..(Len(t) * n) |-> t[((k - 1) % Len(t)) + 1]]

\* the level is low, medium, high or missing
LevelClaimed(params) ==
    \/ params = Null
    \/ "level" \notin DOMAIN Val(params)
    \/ Val(params)["level"] \in {"low", "medium", "high"}

\* N for the level: 2, 3, 4 for low, medium, high and 2 when it is missing
ClaimedN(params) ==
    IF params = Null \/ "level" \notin DOMAIN Val(params) THEN 2
    ELSE IF Val(params)["level"] = "medium" THEN 3
    ELSE IF Val(params)["level"] = "high" THEN 4
    ELSE 2

\* C12: expand returns a mapping whose keys are exactly the input terms; each
\* variant list starts with the term: [term] for the identity and any
\* unrecognized strategy, [term, reverse(term)] for reverse, and
\* [term, term x 2, ..., term x N] for double with N = 2, 3, 4 for level low,
\* medium, high and 2 when the level is missing; an empty terms list is
\* rejected as a client error.
C12_Expand ==
    op = "permutations_route" =>
        IF args.terms = <<>> THEN out = Raised(400)
        ELSE /\ out.status = 200
             /\ DOMAIN out.permutations = Items(args.terms)
             /\ \A t \in Items(args.terms) :
                  /\ Head(out.permutations[t]) = t
                  /\ args.permutation_id = "reverse" => out.permutations[t] = <<t, Rev(t)>>
                  /\ (args.permutation_id = "double" /\ LevelClaimed(args.params)) =>
                        out.permutations[t] =
                            [i \in 1..ClaimedN(args.params) |-> Times(t, i)]
                  /\ args.permutation_id \notin {"reverse", "double"} =>
                        out.permutations[t] = <<t>>

\* C12 witness: two different terms were doubled at level high
C12_Witness ==
    /\ op = "permutations_route"
    /\ args.permutation_id = "double"
    /\ args.params = Some([k \in {"level"} |-> "high"])
    /\ args.terms = <<sAb, sXyz>>
    /\ out.status = 200
    /\ Len(out.permutations[sAb]) = 4
    /\ out.permutations[sAb][4] = <<"a", "b", "a", "b", "a", "b", "a", "b">>

(***************************************************************************)
(* Sequence queries of any shape: operators first, doubled or missing      *)
(***************************************************************************)
\* the length of a sequence query of any shape
MaxSeqLen == 4

AnyShapeQueries == UNION {[1..k -> {cA, cB, AND, OR}] : k \in 0..MaxSeqLen}

SeqInit ==
    /\ dataset = EvalDataset
    /\ op = "idle"
    /\ args = <<>>
    /\ out = <<>>

EvaluateAnyShape ==
    /\ op = "idle"
    /\ \E elements \in AnyShapeQueries, record \in FoldRecords :
        /\ args' = [elements |-> elements, record |-> record, permutations |-> Null]
        /\ out' = _evaluate_query_elements(elements, record, dataset.metadata, Null)
    /\ op' = "_evaluate_query_elements"
    /\ UNCHANGED dataset

SeqNext == EvaluateAnyShape

SeqSpec == SeqInit /\ [][SeqNext]_vars

\* the sequence with the operator at position i replaced by the other one
Flip(s, i) == [s EXCEPT ![i] = IF s[i] = AND THEN OR ELSE AND]

\* the operator at position i is immediately followed by a clause or
\* sub-query that has a running result to be combined with
CombinesNext(s, i) ==
    /\ i < Len(s)
    /\ s[i + 1].type # "operator"
    /\ \E k \in 1..(i - 1) : s[k].type # "operator"

\* C13: an operator applies to the next element only: an operator that is
\* not immediately followed by an element to combine with the running result
\* (it precedes the first non-operator element, another operator or the end)
\* determines nothing, so replacing it by the other operator leaves the
\* result unchanged, whatever elements come later.
C13_NextElementOnly ==
    op = "_evaluate_query_elements" =>
        \A i \in 1..Len(args.elements) :
            (args.elements[i].type = "operator" /\ ~CombinesNext(args.elements, i)) =>
                _evaluate_query_elements(Flip(args.elements, i), args.record,
                                         dataset.metadata, args.permutations) = out

\* C13 restricted to sequences that do not start with an operator
C13_NextElementOnlyAfterFirst ==
    (op = "_evaluate_query_elements" /\ args.elements # <<>>
        /\ args.elements[1].type = "operator") \/ C13_NextElementOnly

(***************************************************************************)
(* The memoized dataset load: data_loader.py lines 10-25                   *)
(*                                                                         *)
(* Route handlers are plain functions, which the server runs on a pool of  *)
(* threads.  Each thread calls one accessor, which calls                   *)
(* _load_metadata_raw through functools.lru_cache: the cache is looked up, *)
(* on a miss the function body runs (it opens and reads the file, during   *)
(* which other threads run), and its result is then stored.  Here dataset  *)
(* is the content of the metadata file, args holds each thread's position, *)
(* accessor and the object its own load produced, and out holds the cache, *)
(* the number of times the body has run and what each accessor returned.   *)
(***************************************************************************)
\* the number of request-handling threads
MaxThreads == 3

Threads == 1..MaxThreads
Accessors == {"metadata", "databaseConfig", "databaseAssignments"}

\* the object one execution of the body returns: json.load builds a new one
\* each time
Loaded(n, content) == [load |-> n, content |-> content]

\* lines 17, 21, 25: _load_metadata_raw().get(<accessor>, {})
ViewOf(object, accessor) == [load |-> object.load, value |-> object.content[accessor]]

LoadInit ==
    /\ dataset \in {EvalDataset} \cup RowsDatasets
    /\ op = "serving"
    /\ args = [t \in Threads |-> [pc |-> "start", accessor |-> "", local |-> Null]]
    /\ out = [cache |-> Null, loads |-> 0, got |-> [t \in Threads |-> Null]]

\* a handler calls get_table_metadata, get_database_config or
\* get_database_assignments
CallAccessor(t) ==
    /\ op = "serving"
    /\ args[t].pc = "start"
    /\ \E a \in Accessors :
          args' = [args EXCEPT ![t] = [pc |-> "lookup", accessor |-> a, local |-> Null]]
    /\ UNCHANGED <<dataset, op, out>>

\* the lru_cache wrapper looks the call up: a hit returns the cached object,
\* a miss goes on to run the body
CacheLookup(t) ==
    /\ op = "serving"
    /\ args[t].pc = "lookup"
    /\ IF out.cache # Null
       THEN /\ args' = [args EXCEPT ![t].pc = "done"]
            /\ out' = [out EXCEPT !.got[t] = Some(ViewOf(Val(out.cache), args[t].accessor))]
       ELSE /\ args' = [args EXCEPT ![t].pc = "loading"]
            /\ out' = out
    /\ UNCHANGED <<dataset, op>>

\* lines 12-13: the body opens the file and parses it
LoadMetadataRaw(t) ==
    /\ op = "serving"
    /\ args[t].pc = "loading"
    /\ args' = [args EXCEPT ![t].pc = "store",
                            ![t].local = Some(Loaded(out.loads + 1, dataset))]
    /\ out' = [out EXCEPT !.loads = out.loads + 1]
    /\ UNCHANGED <<dataset, op>>

\* the wrapper stores the result, unless another thread stored one in the
\* meantime, and the accessor returns its view of this thread's own result
CacheStore(t) ==
    /\ op = "serving"
    /\ args[t].pc = "store"
    /\ args' = [args EXCEPT ![t].pc = "done"]
    /\ out' = [out EXCEPT !.cache = IF out.cache = Null THEN args[t].local ELSE out.cache,
                          !.got[t] = Some(ViewOf(Val(args[t].local), args[t].accessor))]
    /\ UNCHANGED <<dataset, op>>

LoadNext ==
    \E t \in Threads : CallAccessor(t) \/ CacheLookup(t) \/ LoadMetadataRaw(t) \/ CacheStore(t)

LoadSpec == LoadInit /\ [][LoadNext]_vars

\* C14: when several request-handling threads call the dataset accessors
\* before the dataset has been loaded, the load of the metadata file executes
\* at most once in every interleaving, and every thread reads the same loaded
\* dataset.
C14_LoadOnce ==
    op = "serving" =>
        /\ out.loads <= 1
        /\ \A t \in Threads, u \in Threads :
              (out.got[t] # Null /\ out.got[u] # Null) =>
                  Val(out.got[t]).load = Val(out.got[u]).load

\* what does hold: the body runs at most once per thread that missed the
\* cache, and every accessor returns the file's content
C14_EqualContent ==
    op = "serving" =>
        /\ out.loads <= Cardinality({t \in Threads : args[t].local # Null})
        /\ \A t \in Threads :
              out.got[t] # Null => Val(out.got[t]).value = dataset[args[t].accessor]

(***************************************************************************)
(* More claims about search_tables and search_rows together                *)
(***************************************************************************)
\* with no query and no filters, search_tables left the table of the call,
\* which is assigned to the database and has metadata, out of its result
ExcludedByPicked ==
    /\ op = "tables_then_rows"
    /\ args.query = Null
    /\ args.filters = NoFilters
    /\ args.table_key \in Items(Get(dataset.databaseAssignments, args.db_key, <<>>))
    /\ args.table_key \in DOMAIN dataset.metadata
    /\ out.tables.status = 200
    /\ \A i \in 1..Len(out.tables.tables) : out.tables.tables[i].id # args.table_key

\* C15: for every picked-tables list (also one whose entries lack a table
\* field), every database d and every table t assigned to d that has
\* metadata, if search_tables([d]) with no query and no filters excludes t
\* because of the list, search_rows(d, t) with the same list returns
\* totalRecords = 0 and no rows.
C15_PickedAgreement ==
    ExcludedByPicked =>
        /\ out.rows.status = 200
        /\ out.rows.rows = <<>>
        /\ out.rows.pagination.totalRecords = 0

\* C15 restricted to lists in which some entry names a table
C15_PickedAgreementWhenTableNamed ==
    (ExcludedByPicked /\ \E e \in Items(Val(args.picked_tables)) : e.table # Null)
        => C15_PickedAgreement

(***************************************************************************)
(* The facet weight of a returned table entry                              *)
(***************************************************************************)
\* the entry's own count, 1 in place of 0
OwnWeight(t) == IF t.count = 0 THEN 1 ELSE t.count

\* each facet as the sum, over the entries that carry the key, of their own
\* counts
FacetsOfOwnCounts(tables) ==
    LET n == Len(tables)
        HasCountry(i) == tables[i].country # Null /\ Val(tables[i].country) # ""
        HasName(i) == tables[i].name # Null /\ Val(tables[i].name) # <<>>
        HasYear(i) == tables[i].year # Null
    IN  [categories |->
            [c \in UNION {Items(tables[i].categories) : i \in 1..n} |->
                SumSeq([i \in 1..n |->
                    OwnWeight(tables[i]) * Occurrences(tables[i].categories, c)])],
         regions |->
            [k \in {Val(tables[i].country) : i \in {j \in 1..n : HasCountry(j)}} |->
                SumSeq([i \in 1..n |->
                    IF HasCountry(i) /\ Val(tables[i].country) = k
                    THEN OwnWeight(tables[i]) ELSE 0])],
         tableNames |->
            [k \in {Val(tables[i].name) : i \in {j \in 1..n : HasName(j)}} |->
                SumSeq([i \in 1..n |->
                    IF HasName(i) /\ Val(tables[i].name) = k
                    THEN OwnWeight(tables[i]) ELSE 0])],
         tableYears |->
            [k \in {StrOfYear(tables[i].year) : i \in {j \in 1..n : HasYear(j)}} |->
                SumSeq([i \in 1..n |->
                    IF HasYear(i) /\ StrOfYear(tables[i].year) = k
                    THEN OwnWeight(tables[i]) ELSE 0])]]

\* C16: in every search_tables call the weight each returned table entry
\* contributes to the facets is the entry's own count (1 when the count is
\* 0), also when a table is assigned to several requested databases or a
\* requested database holds records of a table assigned to another one.
C16_FacetWeightIsCount ==
    (op = "search_tables" /\ out.status = 200) =>
        out.facets = FacetsOfOwnCounts(out.tables)

\* C16 restricted to calls that name one database
C16_FacetWeightIsCountOneDatabase ==
    (op = "search_tables" /\ out.status = 200
        /\ Cardinality(Items(args.db_keys)) = 1)
        => C16_FacetWeightIsCount

(***************************************************************************)
(* A client paging through one table: routes.py lines 36-52                *)
(***************************************************************************)
\* routes.py lines 36-52: pageNumber, startRow and sizeLimit are optional
search_rows_route(ds, db, table, query, filters, permutations, picked_tables, pageNumber, startRow, sizeLimit) ==
    search_rows(ds, db, table, query, filters, permutations, picked_tables,
                IF pageNumber # Null THEN Val(pageNumber) ELSE 1,
                IF startRow # Null THEN Val(startRow)
                ELSE ((IF pageNumber # Null THEN Val(pageNumber) ELSE 1) - 1)
                        * (IF sizeLimit # Null THEN Val(sizeLimit) ELSE 20),
                IF sizeLimit # Null THEN Val(sizeLimit) ELSE 20)

\* one database holding k records of its one table, each with its own "when"
PagerDataset(k) ==
    [metadata |-> EvalMeta,
     databaseAssignments |-> [d \in {"db1"} |-> <<T1>>],
     databaseConfig |-> <<>>,
     records |-> [d \in {"db1"} |-> [i \in 1..k |-> Rec(T1, Some(sMex), Some(IntToStr(i)))]]]

\* the number of records of the table the client pages through
MaxPagerRows == 6

PagerInit ==
    /\ dataset \in {PagerDataset(k) : k \in 0..MaxPagerRows}
    /\ op = "idle"
    /\ args = <<>>
    /\ out = <<>>

\* the client's record of the pages so far, after the response resp
Collect(collected, requests, resp) ==
    [status |-> resp.status,
     collected |-> collected \o resp.rows,
     pagination |-> resp.pagination,
     requests |-> requests + 1]

\* the first request: startRow 0, a sizeLimit of 1 or more
ClientStart ==
    /\ op = "idle"
    /\ \E size_limit \in 1..MaxSize, page_number \in {Null, Some(1), Some(2)} :
        /\ args' = [db |-> "db1", table |-> T1, pageNumber |-> page_number,
                    startRow |-> 0, sizeLimit |-> size_limit]
        /\ out' = Collect(<<>>, 0,
                    search_rows_route(dataset, "db1", T1, Null, NoFilters, Null, Null,
                                      page_number, Some(0), Some(size_limit)))
    /\ op' = "paging"
    /\ UNCHANGED dataset

\* hasMore is true: the client requests the page at the returned nextOffset
ClientNextPage ==
    /\ op = "paging"
    /\ out.pagination.hasMore
    /\ out.pagination.nextOffset # Null
    /\ args' = [args EXCEPT !.startRow = Val(out.pagination.nextOffset)]
    /\ out' = Collect(out.collected, out.requests,
                search_rows_route(dataset, args.db, args.table, Null, NoFilters, Null, Null,
                                  args.pageNumber, out.pagination.nextOffset,
                                  Some(args.sizeLimit)))
    /\ UNCHANGED <<dataset, op>>

\* hasMore is false: the client stops
ClientStop ==
    /\ op = "paging"
    /\ ~out.pagination.hasMore
    /\ op' = "finished"
    /\ UNCHANGED <<dataset, args, out>>

PagerNext == ClientStart \/ ClientNextPage \/ ClientStop

\* the client keeps going: it takes its next step whenever it has one
PagerSpec == PagerInit /\ [][PagerNext]_vars /\ WF_vars(PagerNext)

\* the rows of the table in stored order
AllRows ==
    [i \in 1..Len(dataset.records["db1"]) |-> <<sMex, IntToStr(i)>>]

\* C17: for every row list and sizeLimit n >= 1, a client that starts at
\* startRow 0 and requests the page at nextOffset while hasMore is true
\* stops after finitely many requests; hasMore is true exactly when
\* nextOffset is present; the pages concatenated in request order are the
\* full row list, no row skipped or repeated.
C17_PagingCompletes ==
    /\ [](op \in {"paging", "finished"} =>
            /\ out.status = 200
            /\ out.pagination.hasMore = (out.pagination.nextOffset # Null)
            /\ out.collected = SubSeq(AllRows, 1, Len(out.collected)))
    /\ <>(op = "finished")
    /\ [](op = "finished" => out.collected = AllRows)

\* C17 witness: the client stopped after four pages that hold all the rows
C17_Witness ==
    /\ op = "finished"
    /\ out.requests = 4
    /\ Len(AllRows) = 4
    /\ out.collected = AllRows

====
